---- MODULE Spec2Model ----
(***************************************************************************)
(* A model of accessLogParser.py: the Parser singleton/factory, the        *)
(* combined-format grammar, the per-field coercions and the timestamp      *)
(* parsing with its FixedOffset timezone.                                  *)
(*                                                                         *)
(* Text is modelled character by character: a Python string is a sequence  *)
(* of one-character strings, so that matching, splitting, slicing and      *)
(* int() are computed the way the code computes them.                      *)
(***************************************************************************)
EXTENDS Integers, Sequences, FiniteSets, TLC

(***************************************************************************)
(* Characters and character classes of the `re` module.                    *)
(***************************************************************************)
Digits == <<"0", "1", "2", "3", "4", "5", "6", "7", "8", "9">>

DigitSet == {Digits[i] : i \in 1..10}

Upper == {"A", "B", "C", "D", "E", "F", "G", "H", "I", "J", "K", "L", "M",
          "N", "O", "P", "Q", "R", "S", "T", "U", "V", "W", "X", "Y", "Z"}

Whitespace == {" ", "\t", "\n", "\r"}

DigitVal(c) == (CHOOSE i \in 1..10 : Digits[i] = c) - 1

\* membership of a character in a class of the pattern: \S, \d, [A-Z], .
InClass(cls, c) ==
  CASE cls = "S" -> c \notin Whitespace
    [] cls = "d" -> c \in DigitSet
    [] cls = "AZ" -> c \in Upper
    [] cls = "dot" -> c # "\n"

Lit(c) == [t |-> "lit", c |-> c, cls |-> ""]

Plus(cls) == [t |-> "plus", c |-> "", cls |-> cls]

(***************************************************************************)
(* CombinedParser.__init__: the compiled pattern                           *)
(*   (\S+) (\S+) (\S+) \[(\S+ \S+)\] "([A-Z]+) (\S+) (\S+)" (\d+) (\d+)    *)
(*   "(\S+)" "(.+)"                                                        *)
(* as its sequence of elements, the elements each group spans, and the     *)
(* field names.                                                            *)
(***************************************************************************)
CombinedRegex ==
  << Plus("S"), Lit(" "), Plus("S"), Lit(" "), Plus("S"), Lit(" "),
     Lit("["), Plus("S"), Lit(" "), Plus("S"), Lit("]"), Lit(" "),
     Lit("\""), Plus("AZ"), Lit(" "), Plus("S"), Lit(" "), Plus("S"), Lit("\""),
     Lit(" "), Plus("d"), Lit(" "), Plus("d"), Lit(" "),
     Lit("\""), Plus("S"), Lit("\""), Lit(" "),
     Lit("\""), Plus("dot"), Lit("\"") >>

\* group g spans the pattern elements CombinedGroups[g][1] .. CombinedGroups[g][2]
CombinedGroups ==
  << <<1, 1>>, <<3, 3>>, <<5, 5>>, <<8, 10>>, <<14, 14>>, <<16, 16>>,
     <<18, 18>>, <<21, 21>>, <<23, 23>>, <<26, 26>>, <<30, 30>> >>

CombinedFields ==
  << "remote_ip", "remote_logname", "remote_user", "timestamp", "http_method",
     "request_uri", "request_protocol", "response_status", "response_size",
     "referer", "user_agent" >>

(***************************************************************************)
(* regex.search: a backtracking match, leftmost start, every + greedy.     *)
(***************************************************************************)
NoMatch == [ok |-> FALSE, ends |-> <<>>]

\* the position after the longest run of class characters starting at p
RunEnd(line, cls, p) ==
  CHOOSE q \in p..(Len(line) + 1) :
    /\ q = Len(line) + 1 \/ ~InClass(cls, line[q])
    /\ \A j \in p..(q - 1) : InClass(cls, line[j])

\* match pattern elements k.. at position p; ends[i] is the position after
\* element k+i-1
RECURSIVE MatchFrom(_, _, _, _)
MatchFrom(pat, line, k, p) ==
  IF k > Len(pat) THEN [ok |-> TRUE, ends |-> <<>>]
  ELSE IF pat[k].t = "lit"
  THEN IF p <= Len(line) /\ line[p] = pat[k].c
       THEN LET r == MatchFrom(pat, line, k + 1, p + 1)
            IN  IF r.ok THEN [ok |-> TRUE, ends |-> <<p + 1>> \o r.ends] ELSE NoMatch
       ELSE NoMatch
  ELSE LET run == RunEnd(line, pat[k].cls, p)
           cands == {[q |-> q, r |-> MatchFrom(pat, line, k + 1, q)] : q \in (p + 1)..run}
           good == {c \in cands : c.r.ok}
       IN  IF good = {} THEN NoMatch
           ELSE LET best == CHOOSE c \in good : \A d \in good : d.q <= c.q
                IN  [ok |-> TRUE, ends |-> <<best.q>> \o best.r.ends]

\* regex.search(log): None, or the match at the leftmost start that matches
Search(pat, line) ==
  IF \A s \in 1..Len(line) : ~MatchFrom(pat, line, 1, s).ok
  THEN [ok |-> FALSE, start |-> 0, ends |-> <<>>]
  ELSE LET s == CHOOSE s \in 1..Len(line) :
                  /\ MatchFrom(pat, line, 1, s).ok
                  /\ \A u \in 1..(s - 1) : ~MatchFrom(pat, line, 1, u).ok
       IN  [ok |-> TRUE, start |-> s, ends |-> MatchFrom(pat, line, 1, s).ends]

\* matches.groups(): the text each group captured
Groups(groups, line, m) ==
  [g \in 1..Len(groups) |->
     LET from == IF groups[g][1] = 1 THEN m.start ELSE m.ends[groups[g][1] - 1]
         to == m.ends[groups[g][2]]
     IN  SubSeq(line, from, to - 1)]

(***************************************************************************)
(* Python string helpers: str.split(), slicing with negative indices and   *)
(* int().                                                                  *)
(***************************************************************************)
RECURSIVE SplitOn(_, _)
\* s.split(sep) for a one-character separator
SplitOn(s, sep) ==
  IF \A i \in 1..Len(s) : s[i] # sep THEN <<s>>
  ELSE LET i == CHOOSE i \in 1..Len(s) : s[i] = sep /\ \A j \in 1..(i - 1) : s[j] # sep
       IN  <<SubSeq(s, 1, i - 1)>> \o SplitOn(SubSeq(s, i + 1, Len(s)), sep)

\* s.split(): split on runs of whitespace, no empty tokens
RECURSIVE SplitWhitespace(_)
SplitWhitespace(s) ==
  IF s = <<>> THEN <<>>
  ELSE IF s[1] \in Whitespace THEN SplitWhitespace(Tail(s))
  ELSE LET e == RunEnd(s, "S", 1)
       IN  <<SubSeq(s, 1, e - 1)>> \o SplitWhitespace(SubSeq(s, e, Len(s)))

Max0(n) == IF n < 0 THEN 0 ELSE n

\* s[-a:-b] (b > 0) and s[-a:]
SliceNeg(s, a, b) == SubSeq(s, Max0(Len(s) - a) + 1, Max0(Len(s) - b))

SliceTail(s, a) == SubSeq(s, Max0(Len(s) - a) + 1, Len(s))

AllDigits(s) == s # <<>> /\ \A i \in 1..Len(s) : s[i] \in DigitSet

RECURSIVE DecimalValue(_)
DecimalValue(s) ==
  IF s = <<>> THEN 0
  ELSE 10 * DecimalValue(SubSeq(s, 1, Len(s) - 1)) + DigitVal(s[Len(s)])

\* int(s): an optional sign, then decimal digits; ValueError otherwise
PyInt(s) ==
  LET signed == s # <<>> /\ s[1] \in {"+", "-"}
      body == IF signed THEN Tail(s) ELSE s
  IN  IF AllDigits(body)
      THEN [ok |-> TRUE,
            v |-> IF signed /\ s[1] = "-" THEN 0 - DecimalValue(body) ELSE DecimalValue(body)]
      ELSE [ok |-> FALSE, v |-> 0]

(***************************************************************************)
(* ipaddr.IPAddress for a token without ':' (an IPv6 literal always holds  *)
(* a ':'): four dot-separated decimal octets, each at most 255 and with no *)
(* leading zero; ValueError otherwise.  The address is kept as its four    *)
(* octets.                                                                 *)
(***************************************************************************)
ValidOctet(o) ==
  /\ AllDigits(o)
  /\ Len(o) <= 3
  /\ ~(Len(o) > 1 /\ o[1] = "0")
  /\ DecimalValue(o) <= 255

IPAddress(s) ==
  LET octets == SplitOn(s, ".")
  IN  IF Len(octets) = 4 /\ \A i \in 1..4 : ValidOctet(octets[i])
      THEN [ok |-> TRUE,
            v |-> [i \in 1..4 |-> DecimalValue(octets[i])]]
      ELSE [ok |-> FALSE, v |-> <<>>]

(***************************************************************************)
(* datetime.strptime(naive, '%d/%b/%Y:%H:%M:%S')                           *)
(***************************************************************************)
MonthNames ==
  << <<"J", "a", "n">>, <<"F", "e", "b">>, <<"M", "a", "r">>, <<"A", "p", "r">>,
     <<"M", "a", "y">>, <<"J", "u", "n">>, <<"J", "u", "l">>, <<"A", "u", "g">>,
     <<"S", "e", "p">>, <<"O", "c", "t">>, <<"N", "o", "v">>, <<"D", "e", "c">> >>

IsLeap(y) == (y % 4 = 0 /\ y % 100 # 0) \/ y % 400 = 0

DaysInMonth(y, m) ==
  IF m = 2 THEN (IF IsLeap(y) THEN 29 ELSE 28)
  ELSE IF m \in {4, 6, 9, 11} THEN 30 ELSE 31

\* a directive that takes one or two digits with a value in lo..hi
TwoDigitField(s, lo, hi) ==
  AllDigits(s) /\ Len(s) <= 2 /\ DecimalValue(s) >= lo /\ DecimalValue(s) <= hi

NoTz == [aware |-> FALSE, offset |-> 0]

NoDatetime ==
  [year |-> 0, month |-> 0, day |-> 0, hour |-> 0, minute |-> 0, second |-> 0,
   tzinfo |-> NoTz]

Strptime(s) ==
  LET dmy == SplitOn(s, "/")
      yhms == IF Len(dmy) = 3 THEN SplitOn(dmy[3], ":") ELSE <<>>
      shape ==
        /\ Len(dmy) = 3
        /\ Len(yhms) = 4
        /\ TwoDigitField(dmy[1], 1, 31)
        /\ \E m \in 1..12 : MonthNames[m] = dmy[2]
        /\ AllDigits(yhms[1]) /\ Len(yhms[1]) = 4
        /\ TwoDigitField(yhms[2], 0, 23)
        /\ TwoDigitField(yhms[3], 0, 59)
        /\ TwoDigitField(yhms[4], 0, 61)
      month == CHOOSE m \in 1..12 : MonthNames[m] = dmy[2]
      year == DecimalValue(yhms[1])
      day == DecimalValue(dmy[1])
      second == DecimalValue(yhms[4])
  IN  IF shape /\ year >= 1 /\ day <= DaysInMonth(year, month) /\ second <= 59
      THEN [ok |-> TRUE,
            dt |-> [year |-> year, month |-> month, day |-> day,
                    hour |-> DecimalValue(yhms[2]), minute |-> DecimalValue(yhms[3]),
                    second |-> second, tzinfo |-> NoTz]]
      ELSE [ok |-> FALSE, dt |-> NoDatetime]

(***************************************************************************)
(* FixedOffset(offset): a tzinfo whose utcoffset() is `offset` minutes.    *)
(***************************************************************************)
FixedOffset(offset) == [aware |-> TRUE, offset |-> offset]

\* ReplaceTzinfo with a seeded fault: the wall clock is moved to UTC as the
\* tzinfo is set
ReplaceTzinfoShifted(dt, tz) ==
  LET m == (dt.hour * 60 + dt.minute - tz.offset) % 1440
  IN  [dt EXCEPT !.tzinfo = tz, !.hour = m \div 60, !.minute = m % 60]

\* naive_ts.replace(tzinfo=tz): the wall-clock fields stay, the tzinfo is set
ReplaceTzinfo(dt, tz) == [dt EXCEPT !.tzinfo = tz]

\* offset_ts = int(offset[-4:-2])*60 + int(offset[-2:])
OffsetMinutes(offset) ==
  LET hh == PyInt(SliceNeg(offset, 4, 2))
      mm == PyInt(SliceTail(offset, 2))
  IN  IF hh.ok /\ mm.ok THEN [ok |-> TRUE, v |-> hh.v * 60 + mm.v]
      ELSE [ok |-> FALSE, v |-> 0]

\* Parser._parseTimestamp: raises ValueError when the unpacking of split(),
\* strptime or int() does
ParseTimestamp(timestamp) ==
  LET parts == SplitWhitespace(timestamp)
      naive == IF Len(parts) = 2 THEN Strptime(parts[1]) ELSE [ok |-> FALSE, dt |-> NoDatetime]
      off == IF Len(parts) = 2 THEN OffsetMinutes(parts[2]) ELSE [ok |-> FALSE, v |-> 0]
  IN  IF Len(parts) = 2 /\ naive.ok /\ off.ok
      THEN [ok |-> TRUE, dt |-> ReplaceTzinfo(naive.dt, FixedOffset(off.v))]
      ELSE [ok |-> FALSE, dt |-> NoDatetime]

(***************************************************************************)
(* Values of a parsed dictionary.  Every value carries its Python type;    *)
(* the fields a type does not use stay at their defaults.                  *)
(***************************************************************************)
StrVal(s) == [type |-> "str", s |-> s, n |-> 0, ip |-> <<>>, dt |-> NoDatetime]

IntVal(n) == [type |-> "int", s |-> <<>>, n |-> n, ip |-> <<>>, dt |-> NoDatetime]

IPVal(ip) == [type |-> "IPv4Address", s |-> <<>>, n |-> 0, ip |-> ip, dt |-> NoDatetime]

DatetimeVal(dt) == [type |-> "datetime", s |-> <<>>, n |-> 0, ip |-> <<>>, dt |-> dt]

NoDict == [f \in {"none"} |-> StrVal(<<>>)]

Return(d) == [kind |-> "return", exc |-> "", rec |-> d]

Raise(exc) == [kind |-> "raise", exc |-> exc, rec |-> NoDict]

Min(a, b) == IF a < b THEN a ELSE b

\* dict(zip(fields, groups))
DictZip(fields, groups) ==
  LET n == Min(Len(fields), Len(groups))
  IN  [f \in {fields[i] : i \in 1..n} |->
         StrVal(groups[CHOOSE i \in 1..n : fields[i] = f /\ \A j \in (i + 1)..n : fields[j] # f])]

(***************************************************************************)
(* Parser objects.  attrs is the set of instance attributes that are set;  *)
(* an attribute that is not set reads as AttributeError.                   *)
(***************************************************************************)
CompiledCombined == [pat |-> CombinedRegex, groups |-> CombinedGroups]

NoRegex == [pat |-> <<>>, groups |-> <<>>]

NewObject(cls) == [cls |-> cls, attrs |-> {}, regex |-> NoRegex, fields |-> <<>>]

\* CombinedParser.__init__, first statement: self.regex = re.compile(...)
InitRegex(self) == [self EXCEPT !.attrs = @ \cup {"regex"}, !.regex = CompiledCombined]

\* CombinedParser.__init__, second statement: self.fields = [...]
InitFields(self) == [self EXCEPT !.attrs = @ \cup {"fields"}, !.fields = CombinedFields]

CombinedInit(self) == InitFields(InitRegex(self))

Initialised(self) ==
  /\ self.attrs = {"regex", "fields"}
  /\ self.regex = CompiledCombined
  /\ self.fields = CombinedFields

\* Parser.parse: matches is None when the line does not match, and
\* matches.groups() then raises AttributeError
ParserParse(self, log) ==
  IF "regex" \notin self.attrs THEN Raise("AttributeError")
  ELSE LET matches == Search(self.regex.pat, log)
       IN  IF "fields" \notin self.attrs \/ ~matches.ok THEN Raise("AttributeError")
           ELSE Return(DictZip(self.fields, Groups(self.regex.groups, log, matches)))

\* CombinedParse with a seeded fault: a failing coercion is swallowed and
\* the dictionary is returned as far as it got
CombinedParseKeepsPartial(self, log) ==
  LET base == ParserParse(self, log)
      d == base.rec
      ip == IPAddress(d["remote_ip"].s)
      ts == ParseTimestamp(d["timestamp"].s)
      d1 == [d EXCEPT !["remote_ip"] = IPVal(ip.v)]
      d2 == [d1 EXCEPT !["timestamp"] = DatetimeVal(ts.dt)]
  IN  IF base.kind = "raise" THEN base
      ELSE IF ~ip.ok THEN Return(d)
      ELSE IF ~ts.ok THEN Return(d1)
      ELSE Return([d2 EXCEPT !["response_status"] = IntVal(PyInt(d["response_status"].s).v),
                             !["response_size"] = IntVal(PyInt(d["response_size"].s).v)])

\* CombinedParser.parse: the coercions in the order of the code; the first
\* one that raises ends the call
CombinedParse(self, log) ==
  LET base == ParserParse(self, log)
      d == base.rec
      ip == IPAddress(d["remote_ip"].s)
      ts == ParseTimestamp(d["timestamp"].s)
      status == PyInt(d["response_status"].s)
      size == PyInt(d["response_size"].s)
  IN  IF base.kind = "raise" THEN base
      ELSE IF ~ip.ok THEN Raise("ValueError")
      ELSE IF ~ts.ok THEN Raise("ValueError")
      ELSE IF ~status.ok THEN Raise("ValueError")
      ELSE IF ~size.ok THEN Raise("ValueError")
      ELSE Return([d EXCEPT !["remote_ip"] = IPVal(ip.v),
                            !["timestamp"] = DatetimeVal(ts.dt),
                            !["response_status"] = IntVal(status.v),
                            !["response_size"] = IntVal(size.v)])

\* obj.parse(log): the method of the object's class
Parse(self, log) ==
  IF self.cls = "CombinedParser" THEN CombinedParse(self, log) ELSE ParserParse(self, log)

(***************************************************************************)
(* Equality of parsed dictionaries, as Python's == computes it: by value   *)
(* for str, int and addresses; for aware datetimes, by the instant (the    *)
(* wall clock minus the UTC offset), whatever the tzinfo objects are.      *)
(***************************************************************************)
DaysBeforeYear(y) == 365 * (y - 1) + ((y - 1) \div 4) - ((y - 1) \div 100) + ((y - 1) \div 400)

RECURSIVE DaysBeforeMonth(_, _)
DaysBeforeMonth(y, m) ==
  IF m <= 1 THEN 0 ELSE DaysBeforeMonth(y, m - 1) + DaysInMonth(y, m - 1)

WallMinutes(dt) ==
  ((DaysBeforeYear(dt.year) + DaysBeforeMonth(dt.year, dt.month) + dt.day) * 24 + dt.hour) * 60
  + dt.minute

DatetimeEq(a, b) ==
  /\ a.tzinfo.aware = b.tzinfo.aware
  /\ WallMinutes(a) - a.tzinfo.offset = WallMinutes(b) - b.tzinfo.offset
  /\ a.second = b.second

ValEq(a, b) ==
  /\ a.type = b.type
  /\ CASE a.type = "str" -> a.s = b.s
       [] a.type = "int" -> a.n = b.n
       [] a.type = "IPv4Address" -> a.ip = b.ip
       [] a.type = "datetime" -> DatetimeEq(a.dt, b.dt)

DictEq(a, b) == DOMAIN a = DOMAIN b /\ \A f \in DOMAIN a : ValEq(a[f], b[f])

(***************************************************************************)
(* Python values passed to Parser.create and to NoSuchParserError.         *)
(***************************************************************************)
PyNone == [type |-> "NoneType", n |-> 0]

PyIntObj(n) == [type |-> "int", n |-> n]

Truthy(v) == v.type = "int" /\ v.n # 0

RECURSIVE DecimalDigits(_)
DecimalDigits(n) ==
  IF n < 10 THEN <<Digits[n + 1]>> ELSE DecimalDigits(n \div 10) \o <<Digits[(n % 10) + 1]>>

\* "%s" % v
FormatS(v) == IF v.type = "NoneType" THEN <<"N", "o", "n", "e">> ELSE DecimalDigits(v.n)

\* NoSuchParserError.__init__: the message, as its three concatenated parts
NoSuchParserErrorMsg(request) ==
  << <<"The requested parser">>,
     IF Truthy(request) THEN <<"[">> \o FormatS(request) \o <<"]">> ELSE <<>>,
     <<" is not available.">> >>

COMBINED == 1

BOGUS == 2

\* the names bound at the top level of the module
ModuleGlobals ==
  {"re", "IPAddress", "datetime", "timedelta", "tzinfo", "NoSuchParserError",
   "FixedOffset", "Parser", "CombinedParser"}

(***************************************************************************)
(* The singleton: the class attribute _instance.  Parser defines it (None, *)
(* written 0); a subclass has its own only once __new__ has assigned it,   *)
(* and reads Parser's until then.                                          *)
(***************************************************************************)
Classes == {"Parser", "CombinedParser"}

InitialClassAttrs ==
  [c \in Classes |-> [set |-> c = "Parser", ref |-> 0]]

\* cls._instance, looked up along the MRO
GetInstance(ca, cls) == IF ca[cls].set THEN ca[cls].ref ELSE ca["Parser"].ref

IsInstance(obj, cls) == obj.cls = cls \/ cls = "Parser"

\* Parser.__new__(cls): create and store an instance unless cls._instance is
\* truthy, then return cls._instance
New(ca, hp, cls) ==
  LET create == GetInstance(ca, cls) = 0
      hp2 == IF create THEN Append(hp, NewObject(cls)) ELSE hp
      ca2 == IF create THEN [ca EXCEPT ![cls] = [set |-> TRUE, ref |-> Len(hp2)]] ELSE ca
  IN  [ca |-> ca2, heap |-> hp2, ref |-> GetInstance(ca2, cls)]

\* cls.__init__(self): only CombinedParser defines one
RunInit(cls, self) == IF cls = "CombinedParser" THEN CombinedInit(self) ELSE self

\* cls(): __new__, then __init__ when the object is an instance of cls
Construct(ca, hp, cls) ==
  LET n == New(ca, hp, cls)
      obj == n.heap[n.ref]
  IN  [ca |-> n.ca,
       heap |-> IF IsInstance(obj, cls) THEN [n.heap EXCEPT ![n.ref] = RunInit(cls, obj)]
                ELSE n.heap,
       ref |-> n.ref]

\* SelfAfterParse with a seeded fault: the call uses up the field list
SelfAfterParseDropsFields(self, log) == [self EXCEPT !.fields = <<>>]

\* what parse leaves of self: neither Parser.parse nor CombinedParser.parse
\* assigns an attribute of self
SelfAfterParse(self, log) == self

\* the identity of the dict a parse call builds: a new object
NewDictId(allocated) == allocated + 1

(***************************************************************************)
(* Input lines.  A line is written from its tokens the way the server      *)
(* writes it (%02d/%b/%Y:%H:%M:%S and a sign, two-digit hours, two-digit   *)
(* minutes); del > 0 deletes the character at that position, which gives   *)
(* the malformed lines (a missing bracket, quote, space, digit, sign).     *)
(***************************************************************************)
Sp == <<" ">>

TwoDigits(n) == <<Digits[(n \div 10) + 1], Digits[(n % 10) + 1]>>

FormatDatetime(d) ==
  TwoDigits(d.day) \o <<"/">> \o MonthNames[d.month] \o <<"/">>
  \o TwoDigits(d.year \div 100) \o TwoDigits(d.year % 100) \o <<":">>
  \o TwoDigits(d.hour) \o <<":">> \o TwoDigits(d.minute) \o <<":">> \o TwoDigits(d.second)

FormatOffset(o) == <<o.sign>> \o TwoDigits(o.hh) \o TwoDigits(o.mm)

ReferenceTokens ==
  [host |-> <<"1", "2", "7", ".", "0", ".", "0", ".", "1">>,
   dt |-> [year |-> 2023, month |-> 10, day |-> 10, hour |-> 13, minute |-> 55, second |-> 36],
   off |-> [sign |-> "-", hh |-> 7, mm |-> 0],
   status |-> <<"2", "0", "0">>,
   agent |-> <<"M", "o", "z", "/", "5">>]

\* an address, an octet out of range, too few octets
Hosts == { ReferenceTokens.host,
           <<"1", "0", ".", "0", ".", "2", "5", "6", ".", "1">>,
           <<"1", "2", ".", "3", "4", ".", "5">> }

\* the reference date and time, and the corners of the calendar and of the
\* clock (29 and 31 February, 31 April and 29 February 2023 do not exist)
DateTimes ==
  { ReferenceTokens.dt }
  \cup { [year |-> y, month |-> m, day |-> d, hour |-> t.h, minute |-> t.m, second |-> t.s] :
           y \in {2023, 2024}, m \in {2, 4, 12}, d \in {1, 29, 31},
           t \in { [h |-> 0, m |-> 0, s |-> 0], [h |-> 23, m |-> 59, s |-> 59] } }

Offsets ==
  { [sign |-> "+", hh |-> 0, mm |-> 0], [sign |-> "-", hh |-> 5, mm |-> 30],
    [sign |-> "+", hh |-> 2, mm |-> 0], [sign |-> "-", hh |-> 7, mm |-> 0],
    [sign |-> "+", hh |-> 12, mm |-> 45] }

Statuses == { ReferenceTokens.status, <<"4", "0", "x">> }

Agents == { ReferenceTokens.agent, <<"a", " ", "\"", "b", "\"">> }

\* the reference line with every date, time and offset, and with every host,
\* status and user agent
Tokens ==
  { [ReferenceTokens EXCEPT !.dt = d, !.off = o] : d \in DateTimes, o \in Offsets }
  \cup { [ReferenceTokens EXCEPT !.host = h, !.status = st, !.agent = a, !.off = o] :
           h \in Hosts, st \in Statuses, a \in Agents, o \in Offsets }

WellFormed(tk) ==
  tk.host \o Sp \o <<"-">> \o Sp \o <<"f", "r", "a", "n", "k">> \o Sp
  \o <<"[">> \o FormatDatetime(tk.dt) \o Sp \o FormatOffset(tk.off) \o <<"]">> \o Sp
  \o <<"\"", "G", "E", "T", " ", "/", "a", ".", "g", "i", "f", " ",
       "H", "T", "T", "P", "/", "1", ".", "0", "\"">> \o Sp
  \o tk.status \o Sp \o <<"2", "3", "2", "6">> \o Sp \o <<"\"", "-", "\"">> \o Sp
  \o <<"\"">> \o tk.agent \o <<"\"">>

DeleteAt(s, i) == SubSeq(s, 1, i - 1) \o SubSeq(s, i + 1, Len(s))

\* the lines that get a character deleted: the reference line with every offset
DeletionBases == { [ReferenceTokens EXCEPT !.off = o] : o \in Offsets }

Inputs ==
  {[tk |-> tk, del |-> 0] : tk \in Tokens}
  \cup UNION { {[tk |-> tk, del |-> d] : d \in 1..Len(WellFormed(tk))} : tk \in DeletionBases }

LineOf(in) == IF in.del = 0 THEN WellFormed(in.tk) ELSE DeleteAt(WellFormed(in.tk), in.del)

ReferenceLine == WellFormed(ReferenceTokens)

\* the lines the callers of the registry program parse: the reference line,
\* one with a host that is no address, one with its closing bracket missing
CallerLines ==
  { ReferenceLine,
    WellFormed([ReferenceTokens EXCEPT !.host = <<"1", "0", ".", "0", ".", "2", "5", "6", ".", "1">>]),
    DeleteAt(ReferenceLine, 46) }

(***************************************************************************)
(* State.                                                                  *)
(***************************************************************************)
VARIABLES
  classAttrs,  \* _instance in the __dict__ of Parser and of CombinedParser
  heap,        \* the parser objects; an object's identity is its index
  last,        \* the outcome of the caller's last call
  results,     \* the parse calls made so far, with what each returned
  tzs,         \* the FixedOffset objects constructed; identity is the index
  cmp,         \* the last comparison of two FixedOffset objects
  input,       \* the line given to the parser under test
  out,         \* what parse made of it
  pc,          \* each thread's position in Parser.create
  local,       \* each thread's object, as returned by __new__
  ret          \* each thread's outcome of Parser.create

vars == <<classAttrs, heap, last, results, tzs, cmp, input, out, pc, local, ret>>

MaxParses == 2

MaxOffsets == 3

NumThreads == 2

Threads == 1..NumThreads

Formats == {PyIntObj(0), PyIntObj(COMBINED), PyIntObj(BOGUS), PyIntObj(3), PyNone}

OffsetValues == {0, 120, 330, 0 - 330}

NoCall == [op |-> "none", arg |-> PyNone, kind |-> "none", exc |-> "", ref |-> 0, msg |-> <<>>]

NoCmp == [a |-> 0, b |-> 0, eq |-> FALSE]

NoOutcome == [kind |-> "none", exc |-> "", rec |-> NoDict]

NoInput == [tk |-> ReferenceTokens, del |-> 0]

NoRet == [kind |-> "none", exc |-> "", ref |-> 0]

\* the parts of the state a specification does not use
IdleRegistry ==
  /\ classAttrs = InitialClassAttrs
  /\ heap = <<>>
  /\ last = NoCall
  /\ results = <<>>

IdleOffsets == tzs = <<>> /\ cmp = NoCmp

IdleParse == input = NoInput /\ out = NoOutcome

IdleThreads ==
  /\ pc = [t \in Threads |-> "idle"]
  /\ local = [t \in Threads |-> 0]
  /\ ret = [t \in Threads |-> NoRet]

(***************************************************************************)
(* The registry program: callers construct parsers, directly or through    *)
(* Parser.create, and parse lines with the objects they got.               *)
(***************************************************************************)
Init == IdleRegistry /\ IdleOffsets /\ IdleParse /\ IdleThreads

\* Parser() or CombinedParser()
ConstructDirect(cls) ==
  LET c == Construct(classAttrs, heap, cls)
  IN  /\ classAttrs' = c.ca
      /\ heap' = c.heap
      /\ last' = [NoCall EXCEPT !.op = cls, !.kind = "return", !.ref = c.ref]
      /\ UNCHANGED <<results, tzs, cmp, input, out, pc, local, ret>>

\* the dict display of Parser.create, then its subscription.  The display
\* evaluates CombinedParser() and then BogusParser(); a name the module does
\* not bind raises NameError, which `except KeyError` lets through.
CreateOutcome(c, format) ==
  IF "BogusParser" \notin ModuleGlobals
  THEN [NoCall EXCEPT !.op = "create", !.arg = format, !.kind = "raise", !.exc = "NameError"]
  ELSE IF format = PyIntObj(COMBINED)
  THEN [NoCall EXCEPT !.op = "create", !.arg = format, !.kind = "return", !.ref = c.ref]
  ELSE IF format = PyIntObj(BOGUS)
  THEN [NoCall EXCEPT !.op = "create", !.arg = format, !.kind = "return"]
  ELSE [NoCall EXCEPT !.op = "create", !.arg = format, !.kind = "raise",
                      !.exc = "NoSuchParserError", !.msg = NoSuchParserErrorMsg(format)]

\* Parser.create(format)
Create(format) ==
  LET c == Construct(classAttrs, heap, "CombinedParser")
  IN  /\ classAttrs' = c.ca
      /\ heap' = c.heap
      /\ last' = CreateOutcome(c, format)
      /\ UNCHANGED <<results, tzs, cmp, input, out, pc, local, ret>>

\* NoSuchParserError(request), constructed by a caller
ConstructError(request) ==
  /\ last' = [NoCall EXCEPT !.op = "NoSuchParserError", !.arg = request, !.kind = "return",
                            !.msg = NoSuchParserErrorMsg(request)]
  /\ UNCHANGED <<classAttrs, heap, results, tzs, cmp, input, out, pc, local, ret>>

\* obj.parse(line) on an object a constructor has handed out
CallParse(ref, line) ==
  /\ Len(results) < MaxParses
  /\ LET o == Parse(heap[ref], line)
     IN  /\ results' = Append(results, [id |-> NewDictId(Len(results)), self |-> ref,
                                        line |-> line, out |-> o])
         /\ last' = [NoCall EXCEPT !.op = "parse", !.kind = o.kind, !.exc = o.exc, !.ref = ref]
  /\ heap' = [heap EXCEPT ![ref] = SelfAfterParse(heap[ref], line)]
  /\ UNCHANGED <<classAttrs, tzs, cmp, input, out, pc, local, ret>>

Next ==
  \/ \E cls \in Classes : ConstructDirect(cls)
  \/ \E format \in Formats : Create(format)
  \/ \E request \in Formats : ConstructError(request)
  \/ \E ref \in 1..Len(heap), line \in CallerLines : CallParse(ref, line)

Spec == Init /\ [][Next]_vars

(***************************************************************************)
(* FixedOffset objects and their comparison.  The class defines no __eq__, *)
(* so == is that of object: two operands are equal when they are the same  *)
(* object.                                                                 *)
(***************************************************************************)
TzEq(a, b) == a = b

NewFixedOffset(offset) ==
  /\ Len(tzs) < MaxOffsets
  /\ tzs' = Append(tzs, FixedOffset(offset))
  /\ UNCHANGED <<classAttrs, heap, last, results, cmp, input, out, pc, local, ret>>

CompareOffsets(a, b) ==
  /\ cmp' = [a |-> a, b |-> b, eq |-> TzEq(a, b)]
  /\ UNCHANGED <<classAttrs, heap, last, results, tzs, input, out, pc, local, ret>>

NextOffsets ==
  \/ \E offset \in OffsetValues : NewFixedOffset(offset)
  \/ \E a \in 1..Len(tzs), b \in 1..Len(tzs) : CompareOffsets(a, b)

SpecOffsets == Init /\ [][NextOffsets]_vars

(***************************************************************************)
(* One line through CombinedParser.parse, for every input line.            *)
(***************************************************************************)
TheParser == CombinedInit(NewObject("CombinedParser"))

InitParse ==
  /\ IdleRegistry /\ IdleOffsets /\ IdleThreads
  /\ input \in Inputs
  /\ out = NoOutcome

ParseLine ==
  /\ out = NoOutcome
  /\ out' = CombinedParse(TheParser, LineOf(input))
  /\ UNCHANGED <<classAttrs, heap, last, results, tzs, cmp, input, pc, local, ret>>

NextParse == ParseLine

SpecParse == InitParse /\ [][NextParse]_vars

(***************************************************************************)
(* Threads that each call Parser.create(COMBINED), interleaved between the *)
(* reads and writes of __new__ and the two assignments of __init__.        *)
(***************************************************************************)
InitThreads ==
  /\ IdleRegistry /\ IdleOffsets /\ IdleParse
  /\ pc = [t \in Threads |-> "new_check"]
  /\ local = [t \in Threads |-> 0]
  /\ ret = [t \in Threads |-> NoRet]

\* if not cls._instance:
NewCheck(t) ==
  /\ pc[t] = "new_check"
  /\ pc' = [pc EXCEPT ![t] = IF GetInstance(classAttrs, "CombinedParser") = 0
                             THEN "new_store" ELSE "new_return"]
  /\ UNCHANGED <<classAttrs, heap, last, results, tzs, cmp, input, out, local, ret>>

\* cls._instance = super(Parser, cls).__new__(cls)
NewStore(t) ==
  /\ pc[t] = "new_store"
  /\ heap' = Append(heap, NewObject("CombinedParser"))
  /\ classAttrs' = [classAttrs EXCEPT !["CombinedParser"] = [set |-> TRUE, ref |-> Len(heap) + 1]]
  /\ pc' = [pc EXCEPT ![t] = "new_return"]
  /\ UNCHANGED <<last, results, tzs, cmp, input, out, local, ret>>

\* return cls._instance; __init__ follows when the object is a CombinedParser
NewReturn(t) ==
  /\ pc[t] = "new_return"
  /\ LET ref == GetInstance(classAttrs, "CombinedParser")
     IN  /\ local' = [local EXCEPT ![t] = ref]
         /\ pc' = [pc EXCEPT ![t] = IF IsInstance(heap[ref], "CombinedParser")
                                    THEN "init_regex" ELSE "bogus"]
  /\ UNCHANGED <<classAttrs, heap, last, results, tzs, cmp, input, out, ret>>

InitRegexStep(t) ==
  /\ pc[t] = "init_regex"
  /\ heap' = [heap EXCEPT ![local[t]] = InitRegex(@)]
  /\ pc' = [pc EXCEPT ![t] = "init_fields"]
  /\ UNCHANGED <<classAttrs, last, results, tzs, cmp, input, out, local, ret>>

InitFieldsStep(t) ==
  /\ pc[t] = "init_fields"
  /\ heap' = [heap EXCEPT ![local[t]] = InitFields(@)]
  /\ pc' = [pc EXCEPT ![t] = "bogus"]
  /\ UNCHANGED <<classAttrs, last, results, tzs, cmp, input, out, local, ret>>

\* BogusParser(), and with it the end of the call
EvalBogus(t) ==
  /\ pc[t] = "bogus"
  /\ LET o == CreateOutcome([ref |-> local[t]], PyIntObj(COMBINED))
     IN  ret' = [ret EXCEPT ![t] = [kind |-> o.kind, exc |-> o.exc, ref |-> o.ref]]
  /\ pc' = [pc EXCEPT ![t] = "done"]
  /\ UNCHANGED <<classAttrs, heap, last, results, tzs, cmp, input, out, local>>

NextThreads ==
  \E t \in Threads :
    \/ NewCheck(t)
    \/ NewStore(t)
    \/ NewReturn(t)
    \/ InitRegexStep(t)
    \/ InitFieldsStep(t)
    \/ EvalBogus(t)

SpecThreads == InitThreads /\ [][NextThreads]_vars

(***************************************************************************)
(* Properties.                                                             *)
(***************************************************************************)
KnownFormats == {PyIntObj(COMBINED), PyIntObj(BOGUS)}

\* the message names the identifier: its middle part is "[<identifier>]"
MessageNames(msg, request) ==
  Len(msg) = 3 /\ msg[2] = <<"[">> \o FormatS(request) \o <<"]">>

\* C1: Parser.create with an identifier that is not registered (0 and None
\* included) always fails with NoSuchParserError, whose message names the
\* identifier; no other error escapes and no parser is returned.
C1_UnknownFormatRaisesNoSuchParserError ==
  (last.op = "create" /\ last.arg \notin KnownFormats)
    => /\ last.kind = "raise"
       /\ last.exc = "NoSuchParserError"
       /\ MessageNames(last.msg, last.arg)

\* C2: Parser.create with a known identifier returns a parser for that
\* format, initialised with its grammar and field list, on every request.
C2_KnownFormatReturnsParser ==
  (last.op = "create" /\ last.arg \in KnownFormats)
    => /\ last.kind = "return"
       /\ last.ref \in 1..Len(heap)
       /\ Initialised(heap[last.ref])

SignedMinutes(o) == (IF o.sign = "-" THEN 0 - 1 ELSE 1) * (o.hh * 60 + o.mm)

\* C3: for an offset token sign, two-digit hours, two-digit minutes, the UTC
\* offset stored on the parsed timestamp is sign x (hours*60 + minutes).
C3_OffsetIsSignedMinutes ==
  (out.kind = "return" /\ input.del = 0)
    => out.rec["timestamp"].dt.tzinfo.offset = SignedMinutes(input.tk.off)

\* C4: a line that does not match the grammar makes parse fail with
\* MalformedLineError, and no record is returned.
C4_UnmatchedLineRaisesMalformedLineError ==
  (out.kind # "none" /\ ~Search(CombinedRegex, LineOf(input)).ok)
    => out.kind = "raise" /\ out.exc = "MalformedLineError"

WallClock(dt) ==
  [year |-> dt.year, month |-> dt.month, day |-> dt.day,
   hour |-> dt.hour, minute |-> dt.minute, second |-> dt.second]

\* C5: the parsed timestamp of a line written from a valid date and time is
\* timezone-aware and its wall-clock fields are those written in the token,
\* whatever the offset; with offset +0000 the stored offset is 0 minutes.
C5_WallClockPreserved ==
  (out.kind = "return" /\ input.del = 0)
    => LET dt == out.rec["timestamp"].dt
       IN  /\ dt.tzinfo.aware
           /\ WallClock(dt) = input.tk.dt
           /\ (input.tk.off.hh = 0 /\ input.tk.off.mm = 0) => dt.tzinfo.offset = 0

C5_Witness ==
  /\ out.kind = "return"
  /\ input.del = 0
  /\ input.tk.off.hh # 0
  /\ out.rec["timestamp"].dt.hour = input.tk.dt.hour

CoercionFails(g) ==
  \/ ~IPAddress(g[1]).ok
  \/ ~ParseTimestamp(g[4]).ok
  \/ ~PyInt(g[8]).ok
  \/ ~PyInt(g[9]).ok

FullyCoerced(rec) ==
  /\ DOMAIN rec = {CombinedFields[i] : i \in 1..Len(CombinedFields)}
  /\ rec["remote_ip"].type = "IPv4Address"
  /\ rec["timestamp"].type = "datetime" /\ rec["timestamp"].dt.tzinfo.aware
  /\ rec["response_status"].type = "int"
  /\ rec["response_size"].type = "int"
  /\ \A f \in DOMAIN rec \ {"remote_ip", "timestamp", "response_status", "response_size"} :
       rec[f].type = "str"

\* C6: when a line matches the grammar and a coercion fails, the call fails
\* with an error; a record that is returned has every typed field coerced.
C6_NoPartialRecord ==
  out.kind # "none"
    => LET m == Search(CombinedRegex, LineOf(input))
       IN  /\ (m.ok /\ CoercionFails(Groups(CombinedGroups, LineOf(input), m)))
                => out.kind = "raise"
           /\ out.kind = "return" => FullyCoerced(out.rec)

C6_Witness ==
  /\ out.kind = "raise"
  /\ out.exc = "ValueError"
  /\ Search(CombinedRegex, LineOf(input)).ok

\* C7: a parse call, successful or failing, leaves every parser object as it
\* was; the record it returns is a new object, not one returned before; and
\* it gives what an earlier call on the same parser and line gave.
C7_ParseIsPure ==
  [][Len(results') = Len(results) + 1
       => LET new == results'[Len(results')]
          IN  /\ heap' = heap
              /\ \A i \in 1..Len(results) : results[i].id # new.id
              /\ \A i \in 1..Len(results) :
                   (results[i].self = new.self /\ results[i].line = new.line)
                     => /\ results[i].out.kind = new.out.kind
                        /\ results[i].out.exc = new.out.exc
                        /\ new.out.kind = "return"
                             => DictEq(results[i].out.rec, new.out.rec)]_vars

C7_Witness ==
  /\ Len(results) >= 2
  /\ results[1].self = results[2].self
  /\ results[1].line = results[2].line
  /\ results[2].out.kind = "return"
  /\ Initialised(heap[results[2].self])

\* C8: under every interleaving of concurrent first requests for the same
\* format, each caller receives a fully initialised parser.
C8_EachCallerGetsInitialisedParser ==
  \A t \in Threads :
    pc[t] = "done"
      => /\ ret[t].kind = "return"
         /\ ret[t].ref \in 1..Len(heap)
         /\ Initialised(heap[ret[t].ref])

\* the construction inside Parser.create, taken alone: once a thread's own
\* __init__ has run, the object it holds is initialised
ConstructionCompletes ==
  \A t \in Threads : pc[t] \in {"bogus", "done"} => Initialised(heap[local[t]])

\* C9: two separately constructed FixedOffset objects compare equal exactly
\* when their minute offsets are equal.
C9_EqualIffSameMinutes ==
  (cmp.a # 0 /\ cmp.a # cmp.b)
    => (cmp.eq <=> tzs[cmp.a].offset = tzs[cmp.b].offset)

\* C10: after any sequence of direct constructions, CombinedParser() returns
\* an instance of CombinedParser with its grammar and field list set.
C10_CombinedParserIsAlwaysCombined ==
  last.op = "CombinedParser"
    => /\ heap[last.ref].cls = "CombinedParser"
       /\ Initialised(heap[last.ref])

====
